---- MODULE Spec2Model ----
(***************************************************************************)
(* Contact manager (Rust/contact_manager/src/main.rs): the record store,   *)
(* its CSV persistence and the command-line invocations that load the data *)
(* file, change the store and save it again.                               *)
(*                                                                         *)
(* A text (Rust String / &str) is a sequence of one-character strings.     *)
(* An Option<T> is a sequence of at most one element: None is <<>> and     *)
(* Some(x) is <<x>>.  A Records store (HashMap<i64, Record>) is a function *)
(* from its set of keys to records [id, name, email].                      *)
(***************************************************************************)
EXTENDS Integers, Sequences, FiniteSets, TLC

VARIABLES
    file,       \* the text of the data file on disk
    op,         \* the command the latest invocation ran ("none" at the start)
    arg,        \* its arguments [id, name, email, query]
    pre,        \* the store load_records gave that invocation
    post,       \* the store after the command changed it
    ret,        \* what the store operation returned (an Option, a list, an id)
    saved,      \* whether the invocation called save_records
    input,      \* parser runs: the text handed to parse_record / parse_records
    verbose,    \* parser runs: the -v flag
    pres,       \* parser runs: the Result parse_record returned
    recs,       \* parser runs: the store parse_records returned
    out,        \* parser runs: what parse_records printed
    ppc,        \* parser runs: "input", "record" or "records"
    procs,      \* concurrent runs: each invocation's command, position and store
    hist        \* concurrent runs: who finished a save last, and whether saves overlapped

vars == <<file, op, arg, pre, post, ret, saved, input, verbose, pres, recs, out, ppc,
          procs, hist>>

----------------------------------------------------------------------------
(* Bounds of the model *)

\* i64 is modelled as a two's complement integer of IdBits bits
IdBits == 3
\* longest exhaustively enumerated parser input
MaxTextLen == 4
\* most sample lines joined into one parser input
MaxLines == 3
\* most records a store holds before add/update of a new id is no longer tried
MaxRecords == 2

----------------------------------------------------------------------------
(* Texts *)

None == <<>>
Some(x) == <<x>>

NL == "\n"
COMMA == ","

RECURSIVE TextsUpTo(_, _)
TextsUpTo(alphabet, n) ==
    IF n = 0 THEN {<<>>}
    ELSE LET shorter == TextsUpTo(alphabet, n - 1)
         IN  shorter \cup {Append(t, c) : t \in {s \in shorter : Len(s) = n - 1}, c \in alphabet}

RECURSIVE Join(_, _)
Join(ts, sep) ==
    IF ts = <<>> THEN <<>>
    ELSE IF Len(ts) = 1 THEN ts[1]
    ELSE ts[1] \o <<sep>> \o Join(Tail(ts), sep)

\* str::split(sep): the pieces between the separators, always at least one
RECURSIVE SplitFrom(_, _, _, _)
SplitFrom(s, sep, i, cur) ==
    IF i > Len(s) THEN <<cur>>
    ELSE IF s[i] = sep THEN <<cur>> \o SplitFrom(s, sep, i + 1, <<>>)
    ELSE SplitFrom(s, sep, i + 1, Append(cur, s[i]))

Split(s, sep) == SplitFrom(s, sep, 1, <<>>)

\* slice.get(i) with a 0-based index: an Option
Get(fields, i) == IF i + 1 <= Len(fields) THEN Some(fields[i + 1]) ELSE None

\* str::to_lowercase on the letters of the model's alphabet
LowerChar(c) == CASE c = "A" -> "a" [] c = "B" -> "b" [] OTHER -> c
to_lowercase(s) == [i \in 1..Len(s) |-> LowerChar(s[i])]

\* str::contains: needle is a contiguous substring of hay
contains(hay, needle) ==
    \E i \in 0..(Len(hay) - Len(needle)) :
        \A j \in 1..Len(needle) : hay[i + j] = needle[j]

----------------------------------------------------------------------------
(* i64 *)

RECURSIVE Pow2(_)
Pow2(n) == IF n = 0 THEN 1 ELSE 2 * Pow2(n - 1)

I64Max == Pow2(IdBits - 1) - 1
I64Min == 0 - Pow2(IdBits - 1)
I64 == I64Min..I64Max

\* wrapping two's complement arithmetic (a release build's +)
Wrap(n) == ((n - I64Min) % Pow2(IdBits)) + I64Min

DigitChars == <<"0", "1", "2", "3", "4", "5", "6", "7", "8", "9">>
IsDigit(c) == \E d \in 1..10 : DigitChars[d] = c
DigitVal(c) == (CHOOSE d \in 1..10 : DigitChars[d] = c) - 1

\* Display for i64 (format!("{}", id)): a minus sign for a negative number,
\* then the decimal digits without leading zeros
RECURSIVE NatToText(_)
NatToText(n) ==
    IF n < 10 THEN <<DigitChars[n + 1]>>
    ELSE NatToText(n \div 10) \o <<DigitChars[(n % 10) + 1]>>

I64ToText(n) == IF n < 0 THEN <<"-">> \o NatToText(0 - n) ELSE NatToText(n)

IntOk(n) == [ok |-> TRUE, val |-> n, kind |-> "none"]
IntErr(k) == [ok |-> FALSE, val |-> 0, kind |-> k]

\* the digit loop of from_str_radix: checked_mul(10), then checked_add or
\* checked_sub of the digit
RECURSIVE ParseDigits(_, _, _)
ParseDigits(ds, acc, neg) ==
    IF ds = <<>> THEN IntOk(acc)
    ELSE IF ~IsDigit(Head(ds)) THEN IntErr("InvalidDigit")
    ELSE LET mul == acc * 10
             nxt == IF neg THEN mul - DigitVal(Head(ds)) ELSE mul + DigitVal(Head(ds))
         IN  IF mul \notin I64 \/ nxt \notin I64
             THEN IntErr(IF neg THEN "NegOverflow" ELSE "PosOverflow")
             ELSE ParseDigits(Tail(ds), nxt, neg)

\* i64::from_str_radix(src, 10)
from_str_radix(src) ==
    IF src = <<>> THEN IntErr("Empty")
    ELSE IF Head(src) \in {"+", "-"}
         THEN IF Tail(src) = <<>> THEN IntErr("InvalidDigit")
              ELSE ParseDigits(Tail(src), 0, Head(src) = "-")
         ELSE ParseDigits(src, 0, FALSE)

----------------------------------------------------------------------------
(* Record, Records *)

Record(id, name, email) == [id |-> id, name |-> name, email |-> email]

\* Records::new
new == <<>>

Keys(records) == DOMAIN records

\* HashMap::insert
Insert(records, id, record) ==
    [k \in Keys(records) \cup {id} |-> IF k = id THEN record ELSE records[k]]

\* Records::add
add(records, record) == Insert(records, record.id, record)

----------------------------------------------------------------------------
(* Parsing *)

ParseOk(r) == [ok |-> TRUE, rec |-> r, err |-> <<>>]
ParseErr(e) == [ok |-> FALSE, rec |-> Record(0, <<>>, None), err |-> e]

InvalidId == <<"InvalidId">>
EmptyRecord == <<"EmptyRecord">>
MissingField(f) == <<"MissingField", f>>

\* a slip: the empty third field kept as Some("")
parse_record_keep_empty_email(record) ==
    LET fields == Split(record, COMMA)
        id == from_str_radix(fields[1])
    IN  IF ~id.ok THEN ParseErr(InvalidId)
        ELSE IF Get(fields, 1) = None \/ Get(fields, 1) = Some(<<>>)
        THEN ParseErr(MissingField("name"))
        ELSE ParseOk(Record(id.val, fields[2], Get(fields, 2)))

\* parse_record
parse_record(record) ==
    LET fields == Split(record, COMMA)
        f0 == Get(fields, 0)
        id == IF f0 = None THEN IntErr("none") ELSE from_str_radix(f0[1])
        f1 == IF Get(fields, 1) # None /\ Get(fields, 1)[1] # <<>>
              THEN Get(fields, 1) ELSE None
        f2 == IF Get(fields, 2) # None /\ Get(fields, 2)[1] # <<>>
              THEN Get(fields, 2) ELSE None
    IN  IF f0 = None THEN ParseErr(EmptyRecord)
        ELSE IF ~id.ok THEN ParseErr(InvalidId)
        ELSE IF f1 = None THEN ParseErr(MissingField("name"))
        ELSE ParseOk(Record(id.val, f1[1], f2))

\* a slip: the enumerate() index printed as it is, 0-based
DiagnosticZeroBased(num, e, record) == [line |-> num, err |-> e, raw |-> record]

\* one diagnostic println! of parse_records
Diagnostic(num, e, record) == [line |-> num + 1, err |-> e, raw |-> record]

\* the for loop of parse_records over the enumerated lines, from 0-based index num
RECURSIVE ParseLoop(_, _, _, _)
ParseLoop(lines, num, verb, acc) ==
    IF num >= Len(lines) THEN acc
    ELSE LET record == lines[num + 1]
             res == parse_record(record)
         IN  IF record = <<>> THEN ParseLoop(lines, num + 1, verb, acc)
             ELSE IF res.ok
             THEN ParseLoop(lines, num + 1, verb,
                            [acc EXCEPT !.recs = add(acc.recs, res.rec)])
             ELSE IF verb
             THEN ParseLoop(lines, num + 1, verb,
                            [acc EXCEPT !.out = Append(acc.out, Diagnostic(num, res.err, record))])
             ELSE ParseLoop(lines, num + 1, verb, acc)

\* parse_records: the store and what was printed
parse_records(records, verb) ==
    ParseLoop(Split(records, NL), 0, verb, [recs |-> new, out |-> <<>>])

----------------------------------------------------------------------------
(* Store operations *)

\* the largest key: what ids.sort() followed by ids.pop() yields
MaxKey(records) == CHOOSE m \in Keys(records) : \A k \in Keys(records) : k <= m

\* Records::next_id.  `id + 1` on the largest i64 panics in a build with
\* overflow checks (debug) and wraps in one without (release): both outcomes.
next_id(records) ==
    IF Keys(records) = {} THEN {[panic |-> FALSE, id |-> 1]}
    ELSE IF MaxKey(records) + 1 \in I64
    THEN {[panic |-> FALSE, id |-> MaxKey(records) + 1]}
    ELSE {[panic |-> TRUE, id |-> 0], [panic |-> FALSE, id |-> Wrap(MaxKey(records) + 1)]}

\* the orders in which a HashMap may yield its entries
Orders(records) ==
    {o \in [1..Cardinality(Keys(records)) -> Keys(records)] :
        \A i, j \in DOMAIN o : i # j => o[i] # o[j]}

\* a slip: the comparison made without to_lowercase
search_case_sensitive(records, name, order) ==
    LET matches(rec) == contains(rec.name, name)
    IN  SelectSeq([i \in DOMAIN order |-> records[order[i]]], matches)

\* Records::search, the map's values iterated in the given order:
\* values().filter(...).collect()
search(records, name, order) ==
    LET matches(rec) == contains(to_lowercase(rec.name), to_lowercase(name))
    IN  SelectSeq([i \in DOMAIN order |-> records[order[i]]], matches)

\* a slip: the record is looked up and returned but stays in the map
remove_keep_entry(records, id) ==
    IF id \in Keys(records)
    THEN [records |-> records, ret |-> Some(records[id])]
    ELSE [records |-> records, ret |-> None]

\* Records::remove: the store left and the Option<Record> returned
remove(records, id) ==
    IF id \in Keys(records)
    THEN [records |-> [k \in Keys(records) \ {id} |-> records[k]], ret |-> Some(records[id])]
    ELSE [records |-> records, ret |-> None]

\* a slip: no e-mail given keeps the e-mail the record had
edit_keep_email(records, id, name, email) ==
    Insert(records, id,
           Record(id, name,
                  IF email = None /\ id \in Keys(records) THEN records[id].email ELSE email))

\* Records::edit
edit(records, id, name, email) == Insert(records, id, Record(id, name, email))

\* a slip: the comparison of the sort reversed
RECURSIVE InsertSortedDescending(_, _)
InsertSortedDescending(sorted, rec) ==
    IF sorted = <<>> THEN <<rec>>
    ELSE IF rec.id > Head(sorted).id THEN <<rec>> \o sorted
    ELSE <<Head(sorted)>> \o InsertSortedDescending(Tail(sorted), rec)

\* Vec::sort_by_key(|rec| rec.id): a stable insertion of each element in turn
RECURSIVE InsertSorted(_, _)
InsertSorted(sorted, rec) ==
    IF sorted = <<>> THEN <<rec>>
    ELSE IF rec.id < Head(sorted).id THEN <<rec>> \o sorted
    ELSE <<Head(sorted)>> \o InsertSorted(Tail(sorted), rec)

RECURSIVE SortByKey(_)
SortByKey(v) ==
    IF v = <<>> THEN <<>>
    ELSE InsertSorted(SortByKey(SubSeq(v, 1, Len(v) - 1)), v[Len(v)])

\* self.list.drain().map(|kv| kv.1).collect(): the values in some order
Drain(records) ==
    LET order == CHOOSE o \in Orders(records) : TRUE
    IN  [i \in DOMAIN order |-> records[order[i]]]

\* Records::into_vec
into_vec(records) == SortByKey(Drain(records))

----------------------------------------------------------------------------
(* Persistence *)

HEADER == <<"i", "d", ",", "n", "a", "m", "e", ",", "e", "m", "a", "i", "l", "\n">>

\* a slip: the line written without its newline
FormatLineNoNewline(record) ==
    LET email == IF record.email = None THEN <<>> ELSE record.email[1]
    IN  I64ToText(record.id) \o <<COMMA>> \o record.name \o <<COMMA>> \o email

\* format!("{},{},{}\n", record.id, record.name, email) with None written as ""
FormatLine(record) ==
    LET email == IF record.email = None THEN <<>> ELSE record.email[1]
    IN  I64ToText(record.id) \o <<COMMA>> \o record.name \o <<COMMA>> \o email \o <<NL>>

RECURSIVE WriteLines(_)
WriteLines(v) == IF v = <<>> THEN <<>> ELSE FormatLine(Head(v)) \o WriteLines(Tail(v))

\* save_records: the text of the truncated and rewritten file
save_records(records) == HEADER \o WriteLines(into_vec(records))

\* load_records: read_to_string, then parse_records
load_records(text, verb) == parse_records(text, verb).recs

----------------------------------------------------------------------------
(* Inputs *)

\* names and e-mail addresses given on the command line
Contacts ==
    { [name |-> <<"a">>, email |-> None],
      [name |-> <<"A", "b">>, email |-> Some(<<"e">>)],
      [name |-> <<>>, email |-> None],
      [name |-> <<"a">>, email |-> Some(<<>>)],
      [name |-> <<"a", ",", "b">>, email |-> Some(<<"e">>)],
      [name |-> <<"a", "\n">>, email |-> None] }
Queries == {<<>>, <<"a">>, <<"B">>}
\* ids given to update and remove
ArgIds == {1, 2, I64Max}

NoArg == [id |-> 0, name |-> <<>>, email |-> None, query |-> <<>>]

\* parser inputs: every short text over the alphabet, and sample lines joined
ParseAlphabet == {"1", "-", "+", ",", " ", "a", "\n"}
SampleLines ==
    { <<>>,
      <<"1", ",", "a">>,
      <<"1", ",", "b", ",", "e">>,
      <<"2", ",", "a", ",">>,
      <<"x", ",", "b", ",">>,
      <<",", "a">>,
      <<"1", ",", ",", "e">> }

RECURSIVE LineSeqs(_)
LineSeqs(n) ==
    IF n = 0 THEN {<<>>}
    ELSE LET shorter == LineSeqs(n - 1)
         IN  shorter \cup {Append(ls, l) : ls \in {s \in shorter : Len(s) = n - 1}, l \in SampleLines}

ParseInputs ==
    TextsUpTo(ParseAlphabet, MaxTextLen) \cup {Join(ls, NL) : ls \in LineSeqs(MaxLines)}

----------------------------------------------------------------------------
(* Invocations of the command-line program, one after the other: each is    *)
(* the whole of run() for its command.                                      *)
(* The data file exists and starts with only its header; -v is not given.   *)

StoreIdle ==
    /\ file = HEADER /\ op = "none" /\ arg = NoArg /\ pre = new /\ post = new
    /\ ret = None /\ saved = FALSE

ParserIdle ==
    /\ input = <<>> /\ verbose = FALSE /\ pres = ParseErr(<<>>) /\ recs = new
    /\ out = <<>> /\ ppc = "idle"

parserVars == <<input, verbose, pres, recs, out, ppc>>
storeVars == <<file, op, arg, pre, post, ret, saved>>

ConcIdle == procs = <<>> /\ hist = [lastSaver |-> 0, overlap |-> FALSE]

concVars == <<procs, hist>>

Init == StoreIdle /\ ParserIdle /\ ConcIdle

\* Command::Add
CmdAdd ==
    \E loaded \in {load_records(file, verbose)} :
        /\ Cardinality(Keys(loaded)) < MaxRecords
        /\ \E c \in Contacts, n \in next_id(loaded) :
            /\ op' = "add"
            /\ arg' = [NoArg EXCEPT !.name = c.name, !.email = c.email]
            /\ pre' = loaded
            /\ ret' = n
            /\ IF n.panic
               THEN post' = loaded /\ saved' = FALSE /\ file' = file
               ELSE /\ post' = add(loaded, Record(n.id, c.name, c.email))
                    /\ saved' = TRUE
                    /\ file' = save_records(post')
        /\ UNCHANGED <<parserVars, concVars>>

\* Command::Update
CmdUpdate ==
    \E loaded \in {load_records(file, verbose)} :
        /\ \E id \in ArgIds, c \in Contacts :
            /\ id \in Keys(loaded) \/ Cardinality(Keys(loaded)) < MaxRecords
            /\ op' = "update"
            /\ arg' = [NoArg EXCEPT !.id = id, !.name = c.name, !.email = c.email]
            /\ pre' = loaded
            /\ post' = edit(loaded, id, c.name, c.email)
            /\ ret' = None
            /\ saved' = TRUE
            /\ file' = save_records(post')
        /\ UNCHANGED <<parserVars, concVars>>

\* Command::Remove
CmdRemove ==
    \E loaded \in {load_records(file, verbose)} :
        /\ \E id \in ArgIds :
            \E removed \in {remove(loaded, id)} :
                /\ op' = "remove"
                /\ arg' = [NoArg EXCEPT !.id = id]
                /\ pre' = loaded
                /\ post' = removed.records
                /\ ret' = removed.ret
                /\ IF removed.ret # None
                   THEN saved' = TRUE /\ file' = save_records(post')
                   ELSE saved' = FALSE /\ file' = file
        /\ UNCHANGED <<parserVars, concVars>>

\* Command::Search
CmdSearch ==
    \E loaded \in {load_records(file, verbose)} :
        /\ \E query \in Queries, order \in Orders(loaded) :
            /\ op' = "search"
            /\ arg' = [NoArg EXCEPT !.query = query]
            /\ pre' = loaded
            /\ post' = loaded
            /\ ret' = search(loaded, query, order)
            /\ saved' = FALSE
            /\ file' = file
        /\ UNCHANGED <<parserVars, concVars>>

\* Command::List
CmdList ==
    \E loaded \in {load_records(file, verbose)} :
        /\ op' = "list"
        /\ arg' = NoArg
        /\ pre' = loaded
        /\ post' = loaded
        /\ ret' = into_vec(loaded)
        /\ saved' = FALSE
        /\ file' = file
        /\ UNCHANGED <<parserVars, concVars>>

Next == CmdAdd \/ CmdUpdate \/ CmdRemove \/ CmdSearch \/ CmdList

Spec == Init /\ [][Next]_vars

----------------------------------------------------------------------------
(* Runs of the parser on an input text *)

InitParse ==
    /\ StoreIdle
    /\ ConcIdle
    /\ input \in ParseInputs
    /\ verbose \in BOOLEAN
    /\ pres = ParseErr(<<>>)
    /\ recs = new
    /\ out = <<>>
    /\ ppc = "input"

\* parse_record on one line, as parse_records calls it: a non-empty line
CallParseRecord ==
    /\ ppc = "input"
    /\ input # <<>>
    /\ \A i \in DOMAIN input : input[i] # NL
    /\ pres' = parse_record(input)
    /\ ppc' = "record"
    /\ UNCHANGED <<input, verbose, recs, out>>
    /\ UNCHANGED <<storeVars, concVars>>

\* parse_records on the whole text
CallParseRecords ==
    /\ ppc = "input"
    /\ recs' = parse_records(input, verbose).recs
    /\ out' = parse_records(input, verbose).out
    /\ ppc' = "records"
    /\ UNCHANGED <<input, verbose, pres>>
    /\ UNCHANGED <<storeVars, concVars>>

NextParse == CallParseRecord \/ CallParseRecords

SpecParse == InitParse /\ [][NextParse]_vars

----------------------------------------------------------------------------
(* Two invocations of a mutating command against the same data file.  Each  *)
(* is its own process: it loads the file, changes its own store, and saves  *)
(* with one open (truncating the file) and one write per line, each write   *)
(* at the process's own file offset.  Nothing orders the steps of the two.  *)

Procs == {1, 2}

ConcCommands ==
    { [kind |-> "add", id |-> 0, name |-> <<"b">>, email |-> None],
      [kind |-> "add", id |-> 0, name |-> <<"c">>, email |-> Some(<<"e">>)],
      [kind |-> "update", id |-> 1, name |-> <<"A", "b">>, email |-> Some(<<"e">>)],
      [kind |-> "remove", id |-> 1, name |-> <<>>, email |-> None] }

\* the file the two invocations start from
ConcFile == save_records(add(new, Record(1, <<"a">>, None)))

NUL == "\\0"

\* a slip: the file opened without truncate(true)
OpenNoTruncate(text) == text

\* OpenOptions::new().write(true).truncate(true).open(): the file is emptied
OpenTruncate(text) == <<>>

\* write(2) of buf at a file offset: a hole past the end reads as zero bytes
WriteAt(text, offset, buf) ==
    LET end == offset + Len(buf)
        n == IF Len(text) > end THEN Len(text) ELSE end
    IN  [i \in 1..n |->
            IF i > offset /\ i <= end THEN buf[i - offset]
            ELSE IF i <= Len(text) THEN text[i]
            ELSE NUL]

\* the writes save_records makes: the header, then one line per record
WriteCalls(records) ==
    <<HEADER>> \o [i \in 1..Cardinality(Keys(records)) |-> FormatLine(into_vec(records)[i])]

Saving(p) == procs[p].pc \in {"write"}
Finished(p, store) ==
    [procs EXCEPT ![p].pc = "done", ![p].store = store]

InitConc ==
    /\ file = ConcFile
    /\ op = "none" /\ arg = NoArg /\ pre = new /\ post = new /\ ret = None /\ saved = FALSE
    /\ ParserIdle
    /\ procs \in [Procs -> {[cmd |-> c, pc |-> "load", store |-> new, nid |-> 0,
                             offset |-> 0, todo |-> <<>>] : c \in ConcCommands}]
    /\ hist = [lastSaver |-> 0, overlap |-> FALSE]

\* load_records and the command's change of its store (run, up to save_records);
\* read_to_string takes the file as it is at that moment, a file another
\* invocation has just truncated included
Load(p) ==
    /\ procs[p].pc = "load"
    /\ \E loaded \in {load_records(file, verbose)} :
        LET c == procs[p].cmd
        IN  \/ /\ c.kind = "add"
               /\ \E n \in next_id(loaded) :
                    procs' = IF n.panic THEN Finished(p, loaded)
                             ELSE [procs EXCEPT ![p].pc = "open", ![p].nid = n.id,
                                     ![p].store = add(loaded, Record(n.id, c.name, c.email))]
            \/ /\ c.kind = "update"
               /\ procs' = [procs EXCEPT ![p].pc = "open",
                              ![p].store = edit(loaded, c.id, c.name, c.email)]
            \/ /\ c.kind = "remove"
               /\ procs' = IF remove(loaded, c.id).ret # None
                           THEN [procs EXCEPT ![p].pc = "open",
                                   ![p].store = remove(loaded, c.id).records]
                           ELSE Finished(p, loaded)
    /\ UNCHANGED <<file, hist>>
    /\ UNCHANGED <<op, arg, pre, post, ret, saved, parserVars>>

\* save_records: the open
Open(p) ==
    /\ procs[p].pc = "open"
    /\ file' = OpenTruncate(file)
    /\ procs' = [procs EXCEPT ![p].pc = "write", ![p].offset = 0,
                   ![p].todo = WriteCalls(procs[p].store)]
    /\ hist' = [hist EXCEPT !.overlap = @ \/ \E q \in Procs \ {p} : Saving(q)]
    /\ UNCHANGED <<op, arg, pre, post, ret, saved, parserVars>>

\* save_records: one file.write; after the last the save is complete
Write(p) ==
    /\ procs[p].pc = "write"
    /\ file' = WriteAt(file, procs[p].offset, Head(procs[p].todo))
    /\ procs' = [procs EXCEPT ![p].offset = @ + Len(Head(procs[p].todo)),
                   ![p].todo = Tail(@),
                   ![p].pc = IF Tail(procs[p].todo) = <<>> THEN "done" ELSE "write"]
    /\ hist' = [lastSaver |-> IF Tail(procs[p].todo) = <<>> THEN p ELSE hist.lastSaver,
                overlap |-> hist.overlap \/ \E q \in Procs \ {p} : Saving(q)]
    /\ UNCHANGED <<op, arg, pre, post, ret, saved, parserVars>>

NextConc == \E p \in Procs : Load(p) \/ Open(p) \/ Write(p)

SpecConc == InitConc /\ [][NextConc]_vars

----------------------------------------------------------------------------
(* Vocabulary of the properties *)

Chars(t) == {t[i] : i \in DOMAIN t}

RECURSIVE Concat(_)
Concat(ts) == IF ts = <<>> THEN <<>> ELSE Head(ts) \o Concat(Tail(ts))

\* an optional sign followed by at least one decimal digit
IsDecimalInteger(t) ==
    LET digits == IF t # <<>> /\ t[1] \in {"+", "-"} THEN Tail(t) ELSE t
    IN  digits # <<>> /\ \A i \in DOMAIN digits : IsDigit(digits[i])

RECURSIVE NatValue(_)
NatValue(digits) ==
    IF digits = <<>> THEN 0
    ELSE 10 * NatValue(SubSeq(digits, 1, Len(digits) - 1)) + DigitVal(digits[Len(digits)])

\* the integer a decimal numeral denotes
DecimalValue(t) ==
    IF t[1] = "-" THEN 0 - NatValue(Tail(t))
    ELSE IF t[1] = "+" THEN NatValue(Tail(t))
    ELSE NatValue(t)

IsBlank(t) == Chars(t) \subseteq {" "}

\* field k (0-based) of a line, absent when the line has fewer fields
FieldPresent(line, k) == Len(Split(line, COMMA)) > k
FieldOf(line, k) == Split(line, COMMA)[k + 1]

\* the k-th smallest key of a store, k = 1 for the smallest
KeyAt(records, k) ==
    CHOOSE id \in Keys(records) : Cardinality({j \in Keys(records) : j < id}) = k - 1

\* the line the file format gives a record
LineOf(rec) ==
    I64ToText(rec.id) \o <<",">> \o rec.name \o <<",">>
        \o (IF rec.email = None THEN <<>> ELSE rec.email[1]) \o <<"\n">>

\* two characters equal up to the case of a letter
SameLetter(c, d) == c = d \/ {c, d} \in {{"a", "A"}, {"b", "B"}}

\* the name holds the query as a contiguous substring, case ignored
NameMatches(rec, query) ==
    \E i \in 0..(Len(rec.name) - Len(query)) :
        \A j \in 1..Len(query) : SameLetter(rec.name[i + j], query[j])

Occurrences(list, x) == Cardinality({i \in DOMAIN list : list[i] = x})

----------------------------------------------------------------------------
(* C1: save-then-load round trip *)

NoCommas(records) ==
    \A k \in Keys(records) :
        /\ COMMA \notin Chars(records[k].name)
        /\ records[k].email # None => COMMA \notin Chars(records[k].email[1])

RoundTripSafe(records) ==
    \A k \in Keys(records) :
        /\ records[k].name # <<>>
        /\ Chars(records[k].name) \cap {COMMA, NL} = {}
        /\ records[k].email # None =>
              /\ records[k].email[1] # <<>>
              /\ Chars(records[k].email[1]) \cap {COMMA, NL} = {}

\* C1 as stated: every saved store whose names and e-mails hold no comma is
\* read back from the written file unchanged (same ids, names and e-mails).
C1_RoundTripNoComma ==
    (saved /\ NoCommas(post)) => load_records(file, verbose) = post

\* C1 amended: every saved store whose names are non-empty, whose e-mails are
\* absent or non-empty, and whose names and e-mails hold neither a comma nor a
\* newline is read back from the written file unchanged.
C1_RoundTrip ==
    (saved /\ RoundTripSafe(post)) => load_records(file, verbose) = post

\* a saved store of two records, one with and one without e-mail, read back
C1_Witness ==
    /\ saved /\ RoundTripSafe(post)
    /\ \E j, k \in Keys(post) : post[j].email = None /\ post[k].email # None
    /\ load_records(file, verbose) = post

----------------------------------------------------------------------------
(* C2: next_id *)

\* C2 as stated: next_id returns 1 on an empty store and otherwise the largest
\* id plus one, and the id it returns is never a key of the store, whatever
\* the ids are (the largest i64 included).
C2_NextIdFresh ==
    op = "add" =>
        /\ ~ret.panic
        /\ ret.id = (IF Keys(pre) = {} THEN 1 ELSE MaxKey(pre) + 1)
        /\ ret.id \notin Keys(pre)

----------------------------------------------------------------------------
(* C6: edit *)

\* C6: after update(id, name, email) the store maps id to exactly the record
\* (id, name, email), whether or not id was there before, and every other
\* record is as it was.
C6_EditUpserts ==
    op = "update" =>
        /\ Keys(post) = Keys(pre) \cup {arg.id}
        /\ post[arg.id] = [id |-> arg.id, name |-> arg.name, email |-> arg.email]
        /\ \A k \in Keys(pre) \ {arg.id} : post[k] = pre[k]

\* an update of an existing record that had an e-mail, with no e-mail given,
\* beside another record
C6_Witness ==
    /\ op = "update"
    /\ arg.id \in Keys(pre) /\ pre[arg.id].email # None /\ arg.email = None
    /\ Keys(pre) # {arg.id}
    /\ post[arg.id].email = None

----------------------------------------------------------------------------
(* C7: remove *)

\* C7: remove(id) returns a record exactly when id was a key; afterwards id is
\* no key and every other record is as it was; the remove command rewrites the
\* file (with the store left) only when the id was found and otherwise leaves
\* the file as it was.
C7_Remove ==
    [][op' = "remove" =>
        /\ pre' = load_records(file, verbose)
        /\ (ret' # None) <=> (arg'.id \in Keys(pre'))
        /\ ret' # None => ret' = Some(pre'[arg'.id])
        /\ Keys(post') = Keys(pre') \ {arg'.id}
        /\ \A k \in Keys(post') : post'[k] = pre'[k]
        /\ ret' # None => saved' /\ file' = save_records(post')
        /\ ret' = None => ~saved' /\ file' = file]_vars

\* a remove that found its id beside another record and rewrote the file
C7_Witness ==
    /\ op = "remove" /\ ret # None /\ saved
    /\ Keys(post) # {} /\ arg.id \notin Keys(post)

----------------------------------------------------------------------------
(* C8: search *)

\* C8: search(query) returns each record whose name holds the query, case
\* ignored, exactly once, returns no other record, and leaves the store as it
\* was.
C8_Search ==
    op = "search" =>
        /\ \A k \in Keys(pre) :
              Occurrences(ret, pre[k]) = (IF NameMatches(pre[k], arg.query) THEN 1 ELSE 0)
        /\ \A i \in DOMAIN ret : \E k \in Keys(pre) : ret[i] = pre[k]
        /\ post = pre
        /\ ~saved

\* a search whose query differs in case from the name it finds, beside a
\* record it does not return
C8_Witness ==
    /\ op = "search" /\ arg.query = <<"B">>
    /\ Len(ret) = 1 /\ ret[1].name = <<"A", "b">>
    /\ Cardinality(Keys(pre)) = 2

----------------------------------------------------------------------------
(* C9: the file save_records writes, and into_vec *)

----------------------------------------------------------------------------
(* C3: EmptyRecord and InvalidId *)

\* C3 as stated: parse_record reports EmptyRecord for a line whose field 0 is
\* missing or blank, and InvalidId only for a field 0 that is present, not
\* blank and not a decimal integer (of the id type).
C3_EmptyRecord ==
    ppc = "record" =>
        /\ (~FieldPresent(input, 0) \/ IsBlank(FieldOf(input, 0)))
              => (~pres.ok /\ pres.err = EmptyRecord)
        /\ (~pres.ok /\ pres.err = InvalidId)
              => /\ FieldPresent(input, 0)
                 /\ ~IsBlank(FieldOf(input, 0))
                 /\ ~(IsDecimalInteger(FieldOf(input, 0))
                        /\ DecimalValue(FieldOf(input, 0)) \in I64)

----------------------------------------------------------------------------
(* C5: parse_record *)

C5_Outcome(line) ==
    IF FieldPresent(line, 1) /\ FieldOf(line, 1) # <<>>
    THEN /\ pres.ok
         /\ pres.rec.id = DecimalValue(FieldOf(line, 0))
         /\ pres.rec.name = FieldOf(line, 1)
         /\ pres.rec.email = (IF FieldPresent(line, 2) /\ FieldOf(line, 2) # <<>>
                              THEN Some(FieldOf(line, 2)) ELSE None)
    ELSE ~pres.ok /\ pres.err = <<"MissingField", "name">>

\* C5 as stated: a line whose field 0 is a decimal integer parses to that id,
\* field 1 as the name and field 2 as the e-mail (none when absent or empty)
\* when field 1 is present and non-empty, and to MissingField("name") otherwise.
C5_ParseRecordAnyInteger ==
    (ppc = "record" /\ IsDecimalInteger(FieldOf(input, 0))) => C5_Outcome(input)

\* C5 amended: the same for a line whose field 0 is a decimal integer that the
\* id type i64 can hold; a decimal integer outside that range is an InvalidId.
C5_ParseRecord ==
    (ppc = "record" /\ IsDecimalInteger(FieldOf(input, 0))) =>
        IF DecimalValue(FieldOf(input, 0)) \in I64
        THEN C5_Outcome(input)
        ELSE ~pres.ok /\ pres.err = InvalidId

C5_Witness ==
    /\ ppc = "record" /\ input = <<"2", ",", "a", ",">>
    /\ pres.ok /\ pres.rec.id = 2 /\ pres.rec.email = None

----------------------------------------------------------------------------
(* C4: parse_records *)

C4_Lines == Split(input, NL)
C4_Accepted == {i \in DOMAIN C4_Lines : C4_Lines[i] # <<>> /\ parse_record(C4_Lines[i]).ok}
C4_Rejected == {i \in DOMAIN C4_Lines : C4_Lines[i] # <<>> /\ ~parse_record(C4_Lines[i]).ok}
C4_LastWith(id) ==
    CHOOSE i \in C4_Accepted :
        /\ parse_record(C4_Lines[i]).rec.id = id
        /\ \A j \in C4_Accepted : parse_record(C4_Lines[j]).rec.id = id => j <= i

\* C4: parse_records returns, for every text, the store of the records of the
\* non-empty lines parse_record accepts, the last line of an id winning; the
\* rejected lines change nothing; and it prints one diagnostic per rejected
\* line, with the line's 1-based number, when verbose is set and nothing
\* otherwise.
C4_ParseRecords ==
    ppc = "records" =>
        /\ Keys(recs) = {parse_record(C4_Lines[i]).rec.id : i \in C4_Accepted}
        /\ \A id \in Keys(recs) : recs[id] = parse_record(C4_Lines[C4_LastWith(id)]).rec
        /\ IF verbose
           THEN /\ Len(out) = Cardinality(C4_Rejected)
                /\ \A k \in DOMAIN out :
                      /\ out[k].line \in C4_Rejected
                      /\ out[k].raw = C4_Lines[out[k].line]
                      /\ out[k].err = parse_record(C4_Lines[out[k].line]).err
                      /\ \A l \in DOMAIN out : k < l => out[k].line < out[l].line
           ELSE out = <<>>

\* a verbose run over an accepted line, a rejected line and a second accepted
\* line with the id of the first
C4_Witness ==
    /\ ppc = "records" /\ verbose
    /\ input = <<"1", ",", "a", "\n", ",", "a", "\n", "1", ",", "b", ",", "e">>
    /\ Keys(recs) = {1} /\ recs[1].name = <<"b">>
    /\ Len(out) = 1 /\ out[1].line = 2

----------------------------------------------------------------------------
(* C10: two invocations at once *)

AllDone == \A p \in Procs : procs[p].pc = "done"

\* C10 as stated: when two mutating invocations interleave, the file in the
\* end is exactly the store saved by the invocation that saved last.
C10_LastWriterWins ==
    (AllDone /\ hist.lastSaver # 0) => file = save_records(procs[hist.lastSaver].store)

\* C10 amended: when two mutating invocations interleave and neither opens or
\* writes the file while the other is between its open and its last write,
\* the file in the end is exactly the store saved by the invocation that saved
\* last; an invocation that loaded before the other saved can lose its change,
\* and two adds can be given the same id.
C10_LastWholeSaveWins ==
    (AllDone /\ hist.lastSaver # 0 /\ ~hist.overlap)
        => file = save_records(procs[hist.lastSaver].store)

\* two adds that both loaded before either saved: the same id twice, and the
\* file holds only the record of the one that saved last
C10_Witness ==
    /\ AllDone /\ ~hist.overlap /\ hist.lastSaver = 2
    /\ procs[1].cmd.kind = "add" /\ procs[2].cmd.kind = "add"
    /\ procs[1].cmd.name # procs[2].cmd.name
    /\ procs[1].nid = procs[2].nid
    /\ \A k \in Keys(load_records(file, verbose)) :
          load_records(file, verbose)[k].name # procs[1].cmd.name
    /\ file = save_records(procs[2].store)

====
